---- MODULE Spec2Model ----
(***************************************************************************)
(* Model of the workflow examples of t14i/crew-ai-example.                 *)
(*                                                                         *)
(*   SpecResume   : src/08_durable_resume.py, the command line program     *)
(*                  (--start / --resume <flow_id> / --status), the         *)
(*                  ResumableWorkflow flow and the checkpoint file.        *)
(*   SpecProposal : src/06_hitl_flow_feedback.py, ProposalFlow as main()   *)
(*                  runs it (default ProposalState).                       *)
(*   SpecProposalInputs : ProposalFlow kicked off with a revision_count    *)
(*                  given as kickoff input.                                *)
(*   SpecTool     : src/04_tool_error_handling.py, the module-level call   *)
(*                  counter and the tools the agent calls during main().   *)
(*   SpecParallel : src/13_production_concerns.py, the crews of            *)
(*                  test_parallel_execution on the asyncio event loop.     *)
(*   SpecSimple   : src/07_durable_basic.py, SimpleWorkflow as main() runs *)
(*                  it.                                                    *)
(*   SpecInstances: state objects of WorkflowState and LongRunningState    *)
(*                  built and written in one process.                      *)
(*   SpecAudit    : src/13_production_concerns.py, a session of the        *)
(*                  AuditLogger.                                           *)
(*                                                                         *)
(* The flows are driven by the CrewAI Flow decorators: @start() runs at    *)
(* kickoff, @listen(m) runs after method m has been run BY THE FRAMEWORK,  *)
(* @router(m) runs after m and its return value is the label whose         *)
(* @listen("label") methods run next.  The return value of a method that   *)
(* is not a router is never a label, and a method called directly from     *)
(* another method is a plain Python call: the framework sees only the      *)
(* completion of the calling method.                                       *)
(***************************************************************************)
EXTENDS Integers, Sequences, FiniteSets, TLC

VARIABLES
    \* ---- src/08_durable_resume.py
    file,        \* STATE_FILE: [exists, content], content a sequence of JSON tokens
    now,         \* the wall clock read by datetime.now()
    runs,        \* number of command line invocations so far
    pc,          \* position of the running process ("idle": no process)
    mode,        \* "start" | "resume" | "status" | "none"
    arg,         \* the flow_id given to --resume
    state,       \* flow.state of the running process (LongRunningState)
    loaded,      \* the checkpoint state restored by --resume (else the default)
    executed,    \* phases entered by the current / last process, in order
    batch,       \* loop variable i of phase_3_processing
    ret,         \* where the running save_checkpoint call returns to
    wbuf,        \* the tokens json.dump is writing
    outcome,     \* how the last process ended
    died_at,     \* pc at which the last process was killed ("none")
    stored,      \* flow ids whose save_checkpoint has completed at least once
    \* ---- src/06_hitl_flow_feedback.py
    pstate,      \* flow.state of ProposalFlow (ProposalState)
    ppc,         \* position of the flow
    caller,      \* who called review_proposal: "framework" | "revise_proposal"
    stdin,       \* the lines input() has returned so far
    reviews,     \* number of times review_proposal was entered
    ran,         \* the methods of the flow that have run
    result,      \* the return value of the last method run by the framework
    kickoff_returned,  \* flow.kickoff() has returned to main
    \* ---- src/04_tool_error_handling.py
    call_counter,  \* call_counter["count"]
    tpc,           \* position of main(): "imported" | "kickoff" | "returned"
    tool_log,      \* the tool calls made during crew.kickoff(), in order
    printed,       \* the count printed by the [Debug] line (-1: not printed)
    \* ---- src/13_production_concerns.py, test_parallel_execution
    apc,           \* position of the caller: "test" | "gather" | "returned" | "raised"
    ready,         \* the event loop's queue of callbacks ready to run
    current,       \* the crew whose task step the loop thread is inside (0: none)
    task,          \* state of each crew's task
    clock,         \* time.time()
    start_time,    \* start_time of each run_crew_async
    duration,      \* duration of each run_crew_async that returned
    outer,         \* the future returned by asyncio.gather
    nfinished,     \* gather's count of finished tasks
    results,       \* what test_parallel_execution got from asyncio.run
    \* ---- src/07_durable_basic.py
    wstate,        \* flow.state of SimpleWorkflow (WorkflowState)
    wpc,           \* position of main(): "main" | "kickoff" | "returned"
    wtrig,         \* methods the framework has triggered and not yet run
    wrunning,      \* the method that is executing ("none")
    wnow,          \* the wall clock read by datetime.now()
    wstarted,      \* the methods in the order in which they started
    wfinished,     \* the methods in the order in which they returned
    \* ---- WorkflowState / LongRunningState objects in one process
    heap,          \* the list and dict objects: address -> content
    insts,         \* the state objects created: class and container addresses
    last_op,       \* the instance the last statement wrote through (0: none)
    \* ---- src/13_production_concerns.py, AuditLogger
    audit_file,    \* the lines of logs/audit.jsonl
    audit_prior,   \* the lines the file held when the session began
    audit_calls,   \* the calls of log made in this session, in order
    got            \* the filter and the return value of the last get_logs

resumeVars == <<file, now, runs, pc, mode, arg, state, loaded, executed, batch,
                ret, wbuf, outcome, died_at, stored>>

proposalVars == <<pstate, ppc, caller, stdin, reviews, ran, result,
                  kickoff_returned>>

toolVars == <<call_counter, tpc, tool_log, printed>>

parallelVars == <<apc, ready, current, task, clock, start_time, duration,
                  outer, nfinished, results>>

simpleVars == <<wstate, wpc, wtrig, wrunning, wnow, wstarted, wfinished>>

instanceVars == <<heap, insts, last_op>>

auditVars == <<audit_file, audit_prior, audit_calls, got>>

vars == <<resumeVars, proposalVars, toolVars, parallelVars, simpleVars,
          instanceVars, auditVars>>

\* what the program of one file leaves alone: the state of the other files
besidesResume == <<proposalVars, toolVars, parallelVars, simpleVars,
                   instanceVars, auditVars>>

besidesProposal == <<resumeVars, toolVars, parallelVars, simpleVars,
                     instanceVars, auditVars>>

besidesTool == <<resumeVars, proposalVars, parallelVars, simpleVars,
                 instanceVars, auditVars>>

besidesParallel == <<resumeVars, proposalVars, toolVars, simpleVars,
                     instanceVars, auditVars>>

besidesSimple == <<resumeVars, proposalVars, toolVars, parallelVars,
                   instanceVars, auditVars>>

besidesInstances == <<resumeVars, proposalVars, toolVars, parallelVars,
                      simpleVars, auditVars>>

besidesAudit == <<resumeVars, proposalVars, toolVars, parallelVars,
                  simpleVars, instanceVars>>

----------------------------------------------------------------------------
(* Bounds of the model *)

\* command line invocations explored
MaxRuns == 2
\* the last clock reading explored (the clock starts at 1)
MaxClock == 2

----------------------------------------------------------------------------
(* src/08_durable_resume.py : LongRunningState                             *)

\* flow_id: str = ""
NoFlowId == 0

total_phases == 5

\* range(3) of phase_3_processing
Batches == 3

LongRunningState ==
    [flow_id |-> NoFlowId, current_phase |-> 0, results |-> << >>,
     is_complete |-> FALSE, started_at |-> 0, last_checkpoint |-> 0,
     interrupted |-> FALSE]

\* the "action" each phase writes in its results entry
ActionOf(k) ==
    CASE k = 0 -> "initialize"
      [] k = 1 -> "data_collection"
      [] k = 2 -> "validation"
      [] k = 3 -> "processing"
      [] k = 4 -> "aggregation"
      [] OTHER -> "finalize"

\* a results entry (its timestamp and payload numbers are left out)
Entry(k) == [phase |-> k, action |-> ActionOf(k)]

\* f"resume_{datetime.now().strftime('%Y%m%d_%H%M%S')}": the clock reading
NewFlowId(t) == t

----------------------------------------------------------------------------
(* The checkpoint file: json.dump / json.load                              *)

Tok(k, v) == [key |-> k, val |-> v]

B2N(b) == IF b THEN 1 ELSE 0

\* json.dump(checkpoint, f): the text, as the sequence of the pieces written
\* (one per JSON object opened, one per results entry; model_dump's key order)
Serialize(s) ==
    << Tok("{flow_id", <<s.flow_id>>),
       Tok("state{", <<s.flow_id, s.current_phase, total_phases>>),
       Tok("results[", <<Len(s.results)>>) >>
    \o [i \in 1..Len(s.results) |-> Tok("entry", <<s.results[i].phase>>)]
    \o << Tok("]", <<B2N(s.is_complete), s.started_at, s.last_checkpoint,
                     B2N(s.interrupted)>>),
          Tok("}}", << >>) >>

\* json.load succeeds: the text is a whole JSON document
WellFormed(c) ==
    /\ Len(c) >= 5
    /\ c[1].key = "{flow_id"
    /\ c[2].key = "state{"
    /\ c[3].key = "results["
    /\ Len(c) = 5 + c[3].val[1]
    /\ c[Len(c) - 1].key = "]"
    /\ c[Len(c)].key = "}}"

\* json.load(f): the checkpoint dict of a well-formed text
Parse(c) ==
    LET n == c[3].val[1]
        tail == c[4 + n].val
    IN  [flow_id |-> c[1].val[1],
         state |-> [flow_id |-> c[2].val[1],
                    current_phase |-> c[2].val[2],
                    results |-> [i \in 1..n |-> Entry(c[3 + i].val[1])],
                    is_complete |-> tail[1] = 1,
                    started_at |-> tail[2],
                    last_checkpoint |-> tail[3],
                    interrupted |-> tail[4] = 1]]

NoFile == [exists |-> FALSE, content |-> << >>]

\* the file holds a complete, loadable checkpoint
Loadable(f) == f.exists /\ WellFormed(f.content)

----------------------------------------------------------------------------
(* ResumableWorkflow: what each phase does to flow.state                   *)

\* phase_0_initialize, lines 71-80
Phase0Body(s, t) ==
    LET s1 == IF s.flow_id = NoFlowId
              THEN [s EXCEPT !.flow_id = NewFlowId(t), !.started_at = t,
                             !.current_phase = 0]
              ELSE s
    IN  [s1 EXCEPT !.results = Append(@, Entry(0))]

\* self.state.current_phase = k (lines 90, 109, 130, 158)
EnterPhase(s, k) == [s EXCEPT !.current_phase = k]

\* self.state.results.append({...}) of phase k (lines 94, 113, 144, 161)
AppendEntry(s, k) == [s EXCEPT !.results = Append(@, Entry(k))]

\* phase_5_finalize, lines 176-183
Phase5Body(s) ==
    [s EXCEPT !.current_phase = 5, !.is_complete = TRUE,
              !.results = Append(@, Entry(5))]

\* a save_checkpoint that also counts its calls in current_phase
StampCheckpoint_Counting(s, t) ==
    [s EXCEPT !.last_checkpoint = t, !.current_phase = @ + 1]

\* save_checkpoint, line 57
StampCheckpoint(s, t) == [s EXCEPT !.last_checkpoint = t]

\* flow.state = LongRunningState(**checkpoint["state"]); interrupted = False
RestoreState(ckpt) == [ckpt.state EXCEPT !.interrupted = FALSE]

----------------------------------------------------------------------------
(* The process                                                             *)

Running == pc # "idle"

InSave == pc \in {"save", "save_write"}

\* inside the try block of phase_3_processing (lines 132-136)
InTry == pc = "phase_3_loop" \/ (InSave /\ ret = "phase_3_loop")

\* the process ends: its memory is gone, the file stays
Exit(o, at) ==
    /\ pc' = "idle"
    /\ outcome' = o
    /\ died_at' = at
    /\ state' = LongRunningState
    /\ batch' = 0
    /\ ret' = "none"
    /\ wbuf' = << >>

\* the exit status the shell sees
ExitStatus(o) ==
    CASE o = "exit(0)" -> 0
      [] o = "exit(1)" -> 1
      [] o = "JSONDecodeError" -> 1
      [] o = "KeyboardInterrupt" -> 130
      [] o = "killed" -> 137
      [] OTHER -> -1

\* time passes
Tick ==
    /\ now < MaxClock
    /\ now' = now + 1
    /\ UNCHANGED <<file, runs, pc, mode, arg, state, loaded, executed, batch,
                   ret, wbuf, outcome, died_at, stored>>
    /\ UNCHANGED besidesResume

\* python 08_durable_resume.py --start  (main, lines 260-267)
main_start ==
    /\ pc = "idle"
    /\ runs < MaxRuns
    /\ runs' = runs + 1
    /\ mode' = "start"
    /\ arg' = NoFlowId
    /\ state' = LongRunningState
    /\ loaded' = LongRunningState
    /\ executed' = << >>
    /\ outcome' = "running"
    /\ died_at' = "none"
    /\ pc' = "phase_0"
    /\ UNCHANGED <<file, now, batch, ret, wbuf, stored>>
    /\ UNCHANGED besidesResume

\* python 08_durable_resume.py --resume <id>: the process starts (line 236)
main_resume_invoke ==
    /\ pc = "idle"
    /\ runs < MaxRuns
    /\ \E id \in 1..MaxClock :
         /\ arg' = id
    /\ runs' = runs + 1
    /\ mode' = "resume"
    /\ state' = LongRunningState
    /\ loaded' = LongRunningState
    /\ executed' = << >>
    /\ outcome' = "running"
    /\ died_at' = "none"
    /\ pc' = "resume_main"
    /\ UNCHANGED <<file, now, batch, ret, wbuf, stored>>
    /\ UNCHANGED besidesResume

\* main_resume without the comparison of the stored flow_id with the
\* requested one (lines 243-245 dropped)
main_resume_unchecked ==
    /\ pc = "resume_main"
    /\ IF ~file.exists
       THEN /\ Exit("exit(1)", "none")
            /\ UNCHANGED <<loaded>>
       ELSE IF ~WellFormed(file.content)
       THEN /\ Exit("JSONDecodeError", "none")
            /\ UNCHANGED <<loaded>>
       ELSE /\ state' = RestoreState(Parse(file.content))
            /\ loaded' = Parse(file.content).state
            /\ pc' = "phase_0"
            /\ UNCHANGED <<outcome, died_at, batch, ret, wbuf>>
    /\ UNCHANGED <<file, now, runs, mode, arg, executed, stored>>
    /\ UNCHANGED besidesResume

\* main, lines 238-258: load, check, restore, kickoff
main_resume ==
    /\ pc = "resume_main"
    /\ IF ~file.exists
       THEN \* load_checkpoint returns None: sys.exit(1)
            /\ Exit("exit(1)", "none")
            /\ UNCHANGED <<loaded>>
       ELSE IF ~WellFormed(file.content)
       THEN \* json.load raises: the traceback ends the process
            /\ Exit("JSONDecodeError", "none")
            /\ UNCHANGED <<loaded>>
       ELSE IF Parse(file.content).flow_id # arg
       THEN /\ Exit("exit(1)", "none")
            /\ UNCHANGED <<loaded>>
       ELSE /\ state' = RestoreState(Parse(file.content))
            /\ loaded' = Parse(file.content).state
            /\ pc' = "phase_0"
            /\ UNCHANGED <<outcome, died_at, batch, ret, wbuf>>
    /\ UNCHANGED <<file, now, runs, mode, arg, executed, stored>>
    /\ UNCHANGED besidesResume

\* a --status that clears the checkpoint it has shown
main_status_clearing ==
    /\ pc = "idle"
    /\ runs < MaxRuns
    /\ runs' = runs + 1
    /\ mode' = "status"
    /\ arg' = NoFlowId
    /\ executed' = << >>
    /\ loaded' = LongRunningState
    /\ IF file.exists /\ ~WellFormed(file.content)
       THEN Exit("JSONDecodeError", "none")
       ELSE Exit("exit(0)", "none")
    /\ file' = NoFile
    /\ UNCHANGED <<now, stored>>
    /\ UNCHANGED besidesResume

\* python 08_durable_resume.py --status  (main, lines 227-234)
main_status ==
    /\ pc = "idle"
    /\ runs < MaxRuns
    /\ runs' = runs + 1
    /\ mode' = "status"
    /\ arg' = NoFlowId
    /\ executed' = << >>
    /\ loaded' = LongRunningState
    /\ IF file.exists /\ ~WellFormed(file.content)
       THEN Exit("JSONDecodeError", "none")
       ELSE Exit("exit(0)", "none")
    /\ UNCHANGED <<file, now, stored>>
    /\ UNCHANGED besidesResume

\* phase_0_initialize, up to the call of save_checkpoint
phase_0_initialize ==
    /\ pc = "phase_0"
    /\ state' = Phase0Body(state, now)
    /\ executed' = Append(executed, 0)
    /\ pc' = "save"
    /\ ret' = "phase_1"
    /\ UNCHANGED <<file, now, runs, mode, arg, loaded, batch, wbuf, outcome,
                   died_at, stored>>
    /\ UNCHANGED besidesResume

\* a phase with a sleep: entry (current_phase = k, then time.sleep)
BeginPhase(k, here, sleep) ==
    /\ pc = here
    /\ state' = EnterPhase(state, k)
    /\ executed' = Append(executed, k)
    /\ pc' = sleep
    /\ UNCHANGED <<file, now, runs, mode, arg, loaded, batch, ret, wbuf,
                   outcome, died_at, stored>>
    /\ UNCHANGED besidesResume

\* ... and the rest: append the entry, call save_checkpoint
FinishPhase(k, sleep, next) ==
    /\ pc = sleep
    /\ state' = AppendEntry(state, k)
    /\ pc' = "save"
    /\ ret' = next
    /\ UNCHANGED <<file, now, runs, mode, arg, loaded, executed, batch, wbuf,
                   outcome, died_at, stored>>
    /\ UNCHANGED besidesResume

phase_1_data_collection == BeginPhase(1, "phase_1", "phase_1_sleep")

phase_1_data_collection_done == FinishPhase(1, "phase_1_sleep", "phase_2")

phase_2_validation == BeginPhase(2, "phase_2", "phase_2_sleep")

phase_2_validation_done == FinishPhase(2, "phase_2_sleep", "phase_3")

\* phase_3_processing, lines 127-133: entry
phase_3_processing ==
    /\ pc = "phase_3"
    /\ state' = EnterPhase(state, 3)
    /\ executed' = Append(executed, 3)
    /\ batch' = 0
    /\ pc' = "phase_3_loop"
    /\ UNCHANGED <<file, now, runs, mode, arg, loaded, ret, wbuf, outcome,
                   died_at, stored>>
    /\ UNCHANGED besidesResume

\* one batch: time.sleep(1), then save_checkpoint (lines 133-136)
phase_3_batch ==
    /\ pc = "phase_3_loop"
    /\ batch < Batches
    /\ batch' = batch + 1
    /\ pc' = "save"
    /\ ret' = "phase_3_loop"
    /\ UNCHANGED <<file, now, runs, mode, arg, state, loaded, executed, wbuf,
                   outcome, died_at, stored>>
    /\ UNCHANGED besidesResume

\* a store that keeps a reference to the state: the entry appended after the
\* loop shows in the stored checkpoint
phase_3_processing_done_aliased ==
    /\ pc = "phase_3_loop"
    /\ batch = Batches
    /\ state' = AppendEntry(state, 3)
    /\ file' = [exists |-> TRUE, content |-> Serialize(AppendEntry(state, 3))]
    /\ pc' = "phase_4"
    /\ UNCHANGED <<now, runs, mode, arg, loaded, executed, batch, ret,
                   wbuf, outcome, died_at, stored>>
    /\ UNCHANGED besidesResume

\* after the loop: append the entry and return (lines 144-151), no save
phase_3_processing_done ==
    /\ pc = "phase_3_loop"
    /\ batch = Batches
    /\ state' = AppendEntry(state, 3)
    /\ pc' = "phase_4"
    /\ UNCHANGED <<file, now, runs, mode, arg, loaded, executed, batch, ret,
                   wbuf, outcome, died_at, stored>>
    /\ UNCHANGED besidesResume

\* a handler that marks the state and raises without saving
phase_3_interrupted_unsaved ==
    /\ pc = "phase_3_except"
    /\ state' = [state EXCEPT !.interrupted = TRUE]
    /\ pc' = "phase_3_raise"
    /\ UNCHANGED <<file, now, runs, mode, arg, loaded, executed, batch, ret,
                   wbuf, outcome, died_at, stored>>
    /\ UNCHANGED besidesResume

\* a handler that lets the interrupted phase finish: it appends the entry of
\* phase 3 before it saves
phase_3_interrupted_finishes ==
    /\ pc = "phase_3_except"
    /\ state' = AppendEntry([state EXCEPT !.interrupted = TRUE], 3)
    /\ pc' = "save"
    /\ ret' = "phase_3_raise"
    /\ UNCHANGED <<file, now, runs, mode, arg, loaded, executed, batch, wbuf,
                   outcome, died_at, stored>>
    /\ UNCHANGED besidesResume

\* except KeyboardInterrupt (lines 138-141): mark, save, then raise
phase_3_interrupted ==
    /\ pc = "phase_3_except"
    /\ state' = [state EXCEPT !.interrupted = TRUE]
    /\ pc' = "save"
    /\ ret' = "phase_3_raise"
    /\ UNCHANGED <<file, now, runs, mode, arg, loaded, executed, batch, wbuf,
                   outcome, died_at, stored>>
    /\ UNCHANGED besidesResume

phase_4_aggregation == BeginPhase(4, "phase_4", "phase_4_sleep")

phase_4_aggregation_done == FinishPhase(4, "phase_4_sleep", "phase_5")

\* phase_5_finalize, up to the call of save_checkpoint
phase_5_finalize ==
    /\ pc = "phase_5"
    /\ state' = Phase5Body(state)
    /\ executed' = Append(executed, 5)
    /\ pc' = "save"
    /\ ret' = "phase_5_return"
    /\ UNCHANGED <<file, now, runs, mode, arg, loaded, batch, wbuf, outcome,
                   died_at, stored>>
    /\ UNCHANGED besidesResume

\* save_checkpoint, lines 57-62: stamp, build the dict, open(STATE_FILE, "w")
save_checkpoint ==
    /\ pc = "save"
    /\ state' = StampCheckpoint(state, now)
    /\ wbuf' = Serialize(StampCheckpoint(state, now))
    /\ file' = [exists |-> TRUE, content |-> << >>]
    /\ pc' = "save_write"
    /\ UNCHANGED <<now, runs, mode, arg, loaded, executed, batch, ret, outcome,
                   died_at, stored>>
    /\ UNCHANGED besidesResume

\* json.dump writes the next piece of the text (line 63)
save_checkpoint_write ==
    /\ pc = "save_write"
    /\ Len(file.content) < Len(wbuf)
    /\ file' = [file EXCEPT !.content = Append(@, wbuf[Len(@) + 1])]
    /\ UNCHANGED <<now, runs, pc, mode, arg, state, loaded, executed, batch,
                   ret, wbuf, outcome, died_at, stored>>
    /\ UNCHANGED besidesResume

\* the with block ends, save_checkpoint returns (line 64)
save_checkpoint_return ==
    /\ pc = "save_write"
    /\ Len(file.content) = Len(wbuf)
    /\ stored' = stored \cup {state.flow_id}
    /\ pc' = ret
    /\ ret' = "none"
    /\ wbuf' = << >>
    /\ UNCHANGED <<file, now, runs, mode, arg, state, loaded, executed, batch,
                   outcome, died_at>>
    /\ UNCHANGED besidesResume

\* kickoff returns the report; main prints it and ends (lines 258, 267-271)
kickoff_return ==
    /\ pc = "phase_5_return"
    /\ Exit("exit(0)", "none")
    /\ UNCHANGED <<file, now, runs, mode, arg, loaded, executed, stored>>
    /\ UNCHANGED besidesResume

\* Ctrl+C: KeyboardInterrupt is raised in the running process.  Inside the
\* try block of phase 3 the handler takes it; anywhere else, and from the
\* handler's raise, it leaves kickoff: --start catches it and exits 0
\* (lines 272-278), --resume has no handler.
Propagate ==
    IF mode = "start" THEN Exit("exit(0)", "none")
                      ELSE Exit("KeyboardInterrupt", "none")

KeyboardInterrupt ==
    /\ Running
    /\ pc # "phase_3_raise"
    /\ IF InTry
       THEN /\ pc' = "phase_3_except"
            /\ ret' = "none"
            /\ wbuf' = << >>
            /\ UNCHANGED <<state, batch, outcome, died_at>>
       ELSE Propagate
    /\ UNCHANGED <<file, now, runs, mode, arg, loaded, executed, stored>>
    /\ UNCHANGED besidesResume

\* raise (line 142)
phase_3_raise ==
    /\ pc = "phase_3_raise"
    /\ Propagate
    /\ UNCHANGED <<file, now, runs, mode, arg, loaded, executed, stored>>
    /\ UNCHANGED besidesResume

\* the process is killed (kill -9, power loss) wherever it is
Crash ==
    /\ Running
    /\ Exit("killed", pc)
    /\ UNCHANGED <<file, now, runs, mode, arg, loaded, executed, stored>>
    /\ UNCHANGED besidesResume

ResumeInit ==
    /\ file = NoFile
    /\ now = 1
    /\ runs = 0
    /\ pc = "idle"
    /\ mode = "none"
    /\ arg = NoFlowId
    /\ state = LongRunningState
    /\ loaded = LongRunningState
    /\ executed = << >>
    /\ batch = 0
    /\ ret = "none"
    /\ wbuf = << >>
    /\ outcome = "none"
    /\ died_at = "none"
    /\ stored = {}

ResumeNext ==
    \/ Tick
    \/ main_start
    \/ main_resume_invoke
    \/ main_resume
    \/ main_status
    \/ phase_0_initialize
    \/ phase_1_data_collection
    \/ phase_1_data_collection_done
    \/ phase_2_validation
    \/ phase_2_validation_done
    \/ phase_3_processing
    \/ phase_3_batch
    \/ phase_3_processing_done
    \/ phase_3_interrupted
    \/ phase_3_raise
    \/ phase_4_aggregation
    \/ phase_4_aggregation_done
    \/ phase_5_finalize
    \/ save_checkpoint
    \/ save_checkpoint_write
    \/ save_checkpoint_return
    \/ kickoff_return
    \/ KeyboardInterrupt
    \/ Crash

----------------------------------------------------------------------------
(* src/06_hitl_flow_feedback.py : ProposalState, ProposalFlow              *)

\* if self.state.revision_count >= 3 (line 144)
MaxRevisions == 3

\* the largest revision_count given as kickoff input (SpecProposalInputs)
MaxInitRevision == 2

\* a console line is a sequence of characters
Lower(ch) ==
    CASE ch = "A" -> "a"
      [] ch = "E" -> "e"
      [] ch = "J" -> "j"
      [] ch = "R" -> "r"
      [] OTHER -> ch

\* str.lower()
lower(s) == [i \in 1..Len(s) |-> Lower(s[i])]

\* str.strip(): leading and trailing blanks removed
RECURSIVE lstrip(_)
lstrip(s) == IF s # << >> /\ Head(s) = " " THEN lstrip(Tail(s)) ELSE s

RECURSIVE rstrip(_)
rstrip(s) ==
    IF s # << >> /\ s[Len(s)] = " " THEN rstrip(SubSeq(s, 1, Len(s) - 1))
                                     ELSE s

strip(s) == rstrip(lstrip(s))

approve == <<"a", "p", "p", "r", "o", "v", "e">>

reject == <<"r", "e", "j", "e", "c", "t">>

\* the lines a reviewer may type
Lines ==
    { approve,
      <<"A", "p", "p", "r", "o", "v", "e">>,
      <<" ", "a", "p", "p", "r", "o", "v", "e", " ">>,
      reject,
      <<"R", "E", "J", "e", "c", "t">>,
      <<"r", "e", "j", "e", "c", "t", " ">>,
      << >>,
      <<" ">>,
      <<"f", "i", "x">>,
      <<"a", "p", "p", "r", "o", "v", "e", "d">>,
      <<"n", "o">> }

\* class ProposalState (lines 20-27); the draft is the text's variable parts
ProposalState ==
    [topic |-> "AI Agent Framework Adoption",
     draft |-> [kind |-> "empty", revision |-> 0, feedback |-> << >>],
     feedback |-> << >>,
     status |-> "pending",
     revision_count |-> 0]

\* review_proposal, lines 90-100: the state after the line read
ReviewOutcome(s, line) ==
    LET feedback == strip(line) IN
    IF lower(feedback) = approve
    THEN [s EXCEPT !.status = "approved",
                   !.feedback = <<"Approved by reviewer">>]
    ELSE IF lower(feedback) = reject
    THEN [s EXCEPT !.status = "rejected",
                   !.feedback = <<"Rejected by reviewer">>]
    ELSE [s EXCEPT !.feedback = feedback, !.status = "needs_revision"]

\* a router without the "rejected" branch
RouteLabel_NoRejectBranch(s) ==
    IF s.status = "approved" THEN "finalize" ELSE "revise"

\* a router with the labels of the first two branches exchanged
RouteLabel_Exchanged(s) ==
    IF s.status = "approved" THEN "handle_rejection"
    ELSE IF s.status = "rejected" THEN "finalize"
    ELSE "revise"

\* route_after_review, lines 105-110: the label returned
RouteLabel(s) ==
    IF s.status = "approved" THEN "finalize"
    ELSE IF s.status = "rejected" THEN "handle_rejection"
    ELSE "revise"

\* The decorators: the method that runs when `trigger` (the name of a method
\* the framework has just run, or the label a router has returned) fires;
\* "end" when nothing listens to it.
Listener(trigger) ==
    CASE trigger = "generate_proposal" -> "review_proposal"
      [] trigger = "review_proposal" -> "route_after_review"
      [] trigger = "finalize" -> "finalize_proposal"
      [] trigger = "handle_rejection" -> "handle_rejection"
      [] trigger = "revise" -> "revise_proposal"
      [] OTHER -> "end"

\* flow = ProposalFlow(); flow.kickoff() (main, lines 200-206)
main_kickoff ==
    /\ ppc = "main"
    /\ ppc' = "generate_proposal"
    /\ UNCHANGED <<pstate, caller, stdin, reviews, ran, result,
                   kickoff_returned>>
    /\ UNCHANGED besidesProposal

\* generate_proposal, lines 45-69
generate_proposal ==
    /\ ppc = "generate_proposal"
    /\ pstate' = [pstate EXCEPT !.draft =
                     [kind |-> "initial", revision |-> pstate.revision_count,
                      feedback |-> << >>]]
    /\ ran' = ran \cup {"generate_proposal"}
    /\ result' = "None"
    /\ caller' = "framework"
    /\ ppc' = Listener("generate_proposal")
    /\ UNCHANGED <<stdin, reviews, kickoff_returned>>
    /\ UNCHANGED besidesProposal

\* a review_proposal that does not wait: it notes the review and returns
review_proposal_suspends ==
    /\ ppc = "review_proposal"
    /\ reviews' = reviews + 1
    /\ ran' = ran \cup {"review_proposal"}
    /\ ppc' = "end"
    /\ UNCHANGED <<pstate, caller, stdin, result, kickoff_returned>>
    /\ UNCHANGED besidesProposal

\* review_proposal, lines 77-90: print the draft, then call input()
review_proposal ==
    /\ ppc = "review_proposal"
    /\ reviews' = reviews + 1
    /\ ran' = ran \cup {"review_proposal"}
    /\ ppc' = "input"
    /\ UNCHANGED <<pstate, caller, stdin, result, kickoff_returned>>
    /\ UNCHANGED besidesProposal

\* input() returns a line; review_proposal, lines 90-100, then returns: to
\* the framework, or to revise_proposal when that called it (line 177)
review_proposal_input ==
    /\ ppc = "input"
    /\ \E line \in Lines :
         /\ stdin' = Append(stdin, line)
         /\ pstate' = ReviewOutcome(pstate, line)
    /\ IF caller = "framework"
       THEN /\ ppc' = Listener("review_proposal")
            /\ result' = "None"
       ELSE /\ ppc' = "revise_proposal_return"
            /\ UNCHANGED result
    /\ UNCHANGED <<caller, reviews, ran, kickoff_returned>>
    /\ UNCHANGED besidesProposal

\* a router that uses the decision up: it puts the status back to "pending"
route_after_review_consuming ==
    /\ ppc = "route_after_review"
    /\ ran' = ran \cup {"route_after_review"}
    /\ result' = RouteLabel(pstate)
    /\ pstate' = [pstate EXCEPT !.status = "pending"]
    /\ ppc' = Listener(RouteLabel(pstate))
    /\ UNCHANGED <<caller, stdin, reviews, kickoff_returned>>
    /\ UNCHANGED besidesProposal

\* route_after_review, lines 102-110: a router, its label is the next trigger
route_after_review ==
    /\ ppc = "route_after_review"
    /\ ran' = ran \cup {"route_after_review"}
    /\ result' = RouteLabel(pstate)
    /\ ppc' = Listener(RouteLabel(pstate))
    /\ UNCHANGED <<pstate, caller, stdin, reviews, kickoff_returned>>
    /\ UNCHANGED besidesProposal

\* finalize_proposal, lines 112-124
finalize_proposal ==
    /\ ppc = "finalize_proposal"
    /\ pstate' = [pstate EXCEPT !.status = "finalized"]
    /\ ran' = ran \cup {"finalize_proposal"}
    /\ result' = "FINAL PROPOSAL"
    /\ ppc' = Listener("finalize_proposal")
    /\ UNCHANGED <<caller, stdin, reviews, kickoff_returned>>
    /\ UNCHANGED besidesProposal

\* handle_rejection, lines 126-137.  It listens to the label
\* "handle_rejection", which is also its own name: its completion fires the
\* trigger it listens to, so the framework may run it again.
handle_rejection ==
    /\ ppc = "handle_rejection"
    /\ ran' = ran \cup {"handle_rejection"}
    /\ result' = "PROPOSAL REJECTED"
    /\ ppc' \in {Listener("handle_rejection"), "end"}
    /\ UNCHANGED <<pstate, caller, stdin, reviews, kickoff_returned>>
    /\ UNCHANGED besidesProposal

\* a revise_proposal without the limit of line 144, whose review is run and
\* routed by the framework
revise_proposal_unlimited ==
    /\ ppc = "revise_proposal"
    /\ ran' = ran \cup {"revise_proposal"}
    /\ LET n == pstate.revision_count + 1 IN
       /\ pstate' = [pstate EXCEPT !.revision_count = n,
                        !.draft = [kind |-> "revised", revision |-> n,
                                   feedback |-> pstate.feedback]]
       /\ caller' = "framework"
       /\ ppc' = "review_proposal"
       /\ UNCHANGED result
    /\ UNCHANGED <<stdin, reviews, kickoff_returned>>
    /\ UNCHANGED besidesProposal

\* revise_proposal, lines 139-177, up to its return or its call of
\* self.review_proposal().  It is a @listen method, not a router: the
\* "finalize" it returns is a return value, not a label.
revise_proposal ==
    /\ ppc = "revise_proposal"
    /\ ran' = ran \cup {"revise_proposal"}
    /\ LET n == pstate.revision_count + 1 IN
       IF n >= MaxRevisions
       THEN /\ pstate' = [pstate EXCEPT !.revision_count = n,
                                        !.status = "approved"]
            /\ result' = "finalize"
            /\ ppc' = Listener("revise_proposal")
            /\ UNCHANGED caller
       ELSE /\ pstate' = [pstate EXCEPT !.revision_count = n,
                             !.draft = [kind |-> "revised", revision |-> n,
                                        feedback |-> pstate.feedback]]
            /\ caller' = "revise_proposal"
            /\ ppc' = "review_proposal"
            /\ UNCHANGED result
    /\ UNCHANGED <<stdin, reviews, kickoff_returned>>
    /\ UNCHANGED besidesProposal

\* return self.review_proposal() (line 177): revise_proposal returns what
\* the direct call returned (None); the framework fires "revise_proposal"
revise_proposal_return ==
    /\ ppc = "revise_proposal_return"
    /\ result' = "None"
    /\ ppc' = Listener("revise_proposal")
    /\ UNCHANGED <<pstate, caller, stdin, reviews, ran, kickoff_returned>>
    /\ UNCHANGED besidesProposal

\* nothing is left to run: kickoff returns, main prints the final state
\* (lines 206-218)
main_result ==
    /\ ppc = "end"
    /\ kickoff_returned' = TRUE
    /\ ppc' = "returned"
    /\ UNCHANGED <<pstate, caller, stdin, reviews, ran, result>>
    /\ UNCHANGED besidesProposal

ProposalIdle ==
    /\ ppc = "main"
    /\ caller = "framework"
    /\ stdin = << >>
    /\ reviews = 0
    /\ ran = {}
    /\ result = "None"
    /\ kickoff_returned = FALSE

ProposalInit ==
    /\ pstate = ProposalState
    /\ ProposalIdle

\* kickoff(inputs={"revision_count": n})
ProposalInputsInit ==
    /\ \E n \in 0..MaxInitRevision :
         pstate = [ProposalState EXCEPT !.revision_count = n]
    /\ ProposalIdle

ProposalNext ==
    \/ main_kickoff
    \/ generate_proposal
    \/ review_proposal
    \/ review_proposal_input
    \/ route_after_review
    \/ finalize_proposal
    \/ handle_rejection
    \/ revise_proposal
    \/ revise_proposal_return
    \/ main_result

----------------------------------------------------------------------------
(* src/04_tool_error_handling.py : call_counter, flaky_tool, failing_tool  *)

\* tool calls explored in one crew.kickoff()
MaxCalls == 3
\* invocation contexts (executions of the agent) that call the tools
MaxCallers == 2

Callers == 1..MaxCallers

\* values the agent passes as operation
Operations == {"test", "sync"}

\* one entry of the log of tool calls
Call(t, c, a, o, n) ==
    [tool |-> t, caller |-> c, arg |-> a, outcome |-> o, attempt |-> n]

\* a flaky tool that fails on every odd call
FlakyOutcome_Odd(n) == IF n % 2 = 1 THEN "ConnectionError" ELSE "success"

\* flaky_tool, lines 55-58, n the count after the increment of line 52
FlakyOutcome(n) == IF n = 1 THEN "ConnectionError" ELSE "success"

IsFlaky(e) == e.tool = "flaky_tool"

\* the calls of flaky_tool in the log
FlakyCalls == SelectSeq(tool_log, IsFlaky)

\* the number of calls of flaky_tool made by caller c among the first k
\* calls of flaky_tool
OwnCalls(c, k) ==
    Cardinality({i \in 1..k : FlakyCalls[i].caller = c})

\* main, lines 107-114: the counter is put back to 0
main_reset_counter ==
    /\ tpc = "imported"
    /\ call_counter' = 0
    /\ tool_log' = << >>
    /\ tpc' = "kickoff"
    /\ UNCHANGED printed
    /\ UNCHANGED besidesTool

\* a flaky_tool that counts the calls of each caller apart
flaky_tool_per_caller ==
    /\ tpc = "kickoff"
    /\ Len(tool_log) < MaxCalls
    /\ \E c \in Callers, operation \in Operations :
         LET n == OwnCalls(c, Len(FlakyCalls)) + 1 IN
         /\ call_counter' = call_counter + 1
         /\ tool_log' = Append(tool_log,
                Call("flaky_tool", c, operation, FlakyOutcome(n), n))
    /\ UNCHANGED <<tpc, printed>>
    /\ UNCHANGED besidesTool

\* flaky_tool, lines 43-58, called by the agent during crew.kickoff()
flaky_tool ==
    /\ tpc = "kickoff"
    /\ Len(tool_log) < MaxCalls
    /\ \E c \in Callers, operation \in Operations :
         /\ call_counter' = call_counter + 1
         /\ tool_log' = Append(tool_log,
                Call("flaky_tool", c, operation,
                     FlakyOutcome(call_counter + 1), call_counter + 1))
    /\ UNCHANGED <<tpc, printed>>
    /\ UNCHANGED besidesTool

\* failing_tool, lines 24-34
failing_tool ==
    /\ tpc = "kickoff"
    /\ Len(tool_log) < MaxCalls
    /\ \E c \in Callers, should_fail \in BOOLEAN :
         tool_log' = Append(tool_log,
             Call("failing_tool", c,
                  IF should_fail THEN "True" ELSE "False",
                  IF should_fail THEN "ValueError" ELSE "success", 0))
    /\ UNCHANGED <<call_counter, tpc, printed>>
    /\ UNCHANGED besidesTool

\* crew.kickoff() is over; main prints the counter (line 175)
main_debug_print ==
    /\ tpc = "kickoff"
    /\ printed' = call_counter
    /\ tpc' = "returned"
    /\ UNCHANGED <<call_counter, tool_log>>
    /\ UNCHANGED besidesTool

\* the module has been imported (line 40)
ToolInit ==
    /\ call_counter = 0
    /\ tpc = "imported"
    /\ tool_log = << >>
    /\ printed = -1

ToolNext ==
    \/ main_reset_counter
    \/ flaky_tool
    \/ failing_tool
    \/ main_debug_print

----------------------------------------------------------------------------
(* src/13_production_concerns.py : run_crew_async, test_parallel_execution *)

\* len(tasks_to_run), lines 303-307
NumCrews == 3
\* the longest crew.kickoff() explored, in clock ticks
MaxDuration == 2

CrewIds == 1..NumCrews

\* an entry of the event loop's ready queue: the first step of a crew's
\* task, the callback gather has put on a finished task, or the wake-up of
\* run_all
Callback(k, c) == [kind |-> k, crew |-> c]

\* the loop thread is inside no callback
LoopFree == current = 0

NextIs(k) == LoopFree /\ ready # << >> /\ Head(ready).kind = k

\* lines 309-317: asyncio.run(run_all()); run_all builds the coroutines,
\* gather wraps each in a task scheduled on the loop, run_all awaits
test_parallel_execution ==
    /\ apc = "test"
    /\ apc' = "gather"
    /\ ready' = [c \in CrewIds |-> Callback("step", c)]
    /\ UNCHANGED <<current, task, clock, start_time, duration, outer,
                   nfinished, results>>
    /\ UNCHANGED besidesParallel

\* run_crew_async, lines 265-287: the loop runs the task's step; the
\* coroutine builds its crew, reads the clock and calls crew.kickoff().  It
\* holds no await: the loop thread is inside this call until it ends.
run_crew_async ==
    /\ NextIs("step")
    /\ LET c == Head(ready).crew IN
         /\ current' = c
         /\ task' = [task EXCEPT ![c] = "running"]
         /\ start_time' = [start_time EXCEPT ![c] = clock]
    /\ ready' = Tail(ready)
    /\ UNCHANGED <<apc, clock, duration, outer, nfinished, results>>
    /\ UNCHANGED besidesParallel

\* crew.kickoff() returns; lines 288-294: the dict is the task's result
crew_kickoff_return ==
    /\ current # 0
    /\ \E d \in 1..MaxDuration :
         /\ clock' = clock + d
         /\ duration' = [duration EXCEPT ![current] = clock + d - start_time[current]]
    /\ task' = [task EXCEPT ![current] = "done"]
    /\ ready' = Append(ready, Callback("done", current))
    /\ current' = 0
    /\ UNCHANGED <<apc, start_time, outer, nfinished, results>>
    /\ UNCHANGED besidesParallel

\* crew.kickoff() raises; nothing in run_crew_async catches it: the
\* exception is the task's outcome
crew_kickoff_raise ==
    /\ current # 0
    /\ \E d \in 1..MaxDuration : clock' = clock + d
    /\ task' = [task EXCEPT ![current] = "failed"]
    /\ ready' = Append(ready, Callback("done", current))
    /\ current' = 0
    /\ UNCHANGED <<apc, start_time, duration, outer, nfinished, results>>
    /\ UNCHANGED besidesParallel

\* asyncio.gather(*tasks), line 315, return_exceptions left False: the
\* callback gather has put on each task.  The first exception becomes the
\* outcome of the gather; the results become it when every task is finished.
gather_done_callback ==
    /\ NextIs("done")
    /\ nfinished' = nfinished + 1
    /\ LET c == Head(ready).crew IN
         IF outer # "pending"
         THEN /\ ready' = Tail(ready)
              /\ UNCHANGED outer
         ELSE IF task[c] = "failed"
         THEN /\ outer' = "exception"
              /\ ready' = Append(Tail(ready), Callback("wakeup", 0))
         ELSE IF nfinished + 1 = NumCrews
         THEN /\ outer' = "result"
              /\ ready' = Append(Tail(ready), Callback("wakeup", 0))
         ELSE /\ ready' = Tail(ready)
              /\ UNCHANGED outer
    /\ UNCHANGED <<apc, current, task, clock, start_time, duration, results>>
    /\ UNCHANGED besidesParallel

\* run_all resumes from its await (line 315) and asyncio.run ends (line 317):
\* results is the list of dicts, or the exception leaves
\* test_parallel_execution
run_all_resume ==
    /\ NextIs("wakeup")
    /\ ready' = Tail(ready)
    /\ IF outer = "result"
       THEN /\ apc' = "returned"
            /\ results' = [c \in CrewIds |->
                             [crew_id |-> c, duration |-> duration[c]]]
       ELSE /\ apc' = "raised"
            /\ results' = << >>
    /\ UNCHANGED <<current, task, clock, start_time, duration, outer,
                   nfinished>>
    /\ UNCHANGED besidesParallel

ParallelInit ==
    /\ apc = "test"
    /\ ready = << >>
    /\ current = 0
    /\ task = [c \in CrewIds |-> "pending"]
    /\ clock = 0
    /\ start_time = [c \in CrewIds |-> -1]
    /\ duration = [c \in CrewIds |-> -1]
    /\ outer = "pending"
    /\ nfinished = 0
    /\ results = << >>

ParallelNext ==
    \/ test_parallel_execution
    \/ run_crew_async
    \/ crew_kickoff_return
    \/ crew_kickoff_raise
    \/ gather_done_callback
    \/ run_all_resume

----------------------------------------------------------------------------
(* src/07_durable_basic.py : WorkflowState, SimpleWorkflow, main           *)

\* the last clock reading explored for SimpleWorkflow (the clock starts at 1)
MaxStepClock == 3

\* WorkflowState, lines 26-34; data is kept as the set of its keys
WorkflowState ==
    [workflow_id |-> 0, current_step |-> "init", data |-> {},
     history |-> << >>, created_at |-> 0, updated_at |-> 0]

Methods ==
    <<"step1_initialize", "step2_gather_data", "step3_process_data",
      "step4_generate_report">>

\* a mis-wired flow: step4_generate_report listens to step2_gather_data
SimpleListeners_Step4OnStep2(m) ==
    CASE m = "step1_initialize" -> {"step2_gather_data"}
      [] m = "step2_gather_data" -> {"step3_process_data",
                                     "step4_generate_report"}
      [] OTHER -> {}

\* the @listen decorators, lines 62, 84, 106: who runs when m has returned
SimpleListeners(m) ==
    CASE m = "step1_initialize" -> {"step2_gather_data"}
      [] m = "step2_gather_data" -> {"step3_process_data"}
      [] m = "step3_process_data" -> {"step4_generate_report"}
      [] OTHER -> {}

\* the assignments each method makes before its history.append
\* (lines 50-53, 68-74, 90-97, 111-112)
StepBody(m, s, t) ==
    CASE m = "step1_initialize" ->
           [s EXCEPT !.workflow_id = t, !.current_step = "initialized",
                     !.created_at = t, !.updated_at = t]
      [] m = "step2_gather_data" ->
           [s EXCEPT !.data = {"source", "records", "quality_score"},
                     !.current_step = "data_gathered", !.updated_at = t]
      [] m = "step3_process_data" ->
           [s EXCEPT !.data = @ \cup {"processed", "analysis"},
                     !.current_step = "data_processed", !.updated_at = t]
      [] OTHER ->
           [s EXCEPT !.current_step = "completed", !.updated_at = t]

\* the "step" of the history entry each method appends
\* (lines 54-58, 75-80, 98-102, 113-117)
StepName(m) ==
    CASE m = "step1_initialize" -> "initialize"
      [] m = "step2_gather_data" -> "gather_data"
      [] m = "step3_process_data" -> "process_data"
      [] OTHER -> "generate_report"

HistoryEntry(m, t) ==
    [step |-> StepName(m), timestamp |-> t, status |-> "completed"]

\* time passes
SimpleTick ==
    /\ wnow < MaxStepClock
    /\ wnow' = wnow + 1
    /\ UNCHANGED <<wstate, wpc, wtrig, wrunning, wstarted, wfinished>>
    /\ UNCHANGED besidesSimple

\* main, lines 164-165: flow = SimpleWorkflow(); flow.kickoff() triggers the
\* @start method
simple_main ==
    /\ wpc = "main"
    /\ wpc' = "kickoff"
    /\ wtrig' = {"step1_initialize"}
    /\ UNCHANGED <<wstate, wrunning, wnow, wstarted, wfinished>>
    /\ UNCHANGED besidesSimple

\* the framework runs a triggered method: the method up to its
\* history.append
BeginStep(m) ==
    /\ wpc = "kickoff"
    /\ wrunning = "none"
    /\ m \in wtrig
    /\ wtrig' = wtrig \ {m}
    /\ wrunning' = m
    /\ wstarted' = Append(wstarted, m)
    /\ wstate' = StepBody(m, wstate, wnow)
    /\ UNCHANGED <<wpc, wnow, wfinished>>
    /\ UNCHANGED besidesSimple

\* history.append and the return of the method: its listeners are triggered
FinishStep(m) ==
    /\ wrunning = m
    /\ wstate' = [wstate EXCEPT !.history = Append(@, HistoryEntry(m, wnow))]
    /\ wrunning' = "none"
    /\ wfinished' = Append(wfinished, m)
    /\ wtrig' = wtrig \cup SimpleListeners(m)
    /\ UNCHANGED <<wpc, wnow, wstarted>>
    /\ UNCHANGED besidesSimple

step1_initialize == BeginStep("step1_initialize")

step1_initialize_done == FinishStep("step1_initialize")

step2_gather_data == BeginStep("step2_gather_data")

step2_gather_data_done == FinishStep("step2_gather_data")

step3_process_data == BeginStep("step3_process_data")

step3_process_data_done == FinishStep("step3_process_data")

step4_generate_report == BeginStep("step4_generate_report")

step4_generate_report_done == FinishStep("step4_generate_report")

\* nothing is triggered any more: kickoff returns, main prints (lines 165-179)
simple_kickoff_return ==
    /\ wpc = "kickoff"
    /\ wrunning = "none"
    /\ wtrig = {}
    /\ wpc' = "returned"
    /\ UNCHANGED <<wstate, wtrig, wrunning, wnow, wstarted, wfinished>>
    /\ UNCHANGED besidesSimple

SimpleInit ==
    /\ wstate = WorkflowState
    /\ wpc = "main"
    /\ wtrig = {}
    /\ wrunning = "none"
    /\ wnow = 1
    /\ wstarted = << >>
    /\ wfinished = << >>

SimpleNext ==
    \/ SimpleTick
    \/ simple_main
    \/ step1_initialize
    \/ step1_initialize_done
    \/ step2_gather_data
    \/ step2_gather_data_done
    \/ step3_process_data
    \/ step3_process_data_done
    \/ step4_generate_report
    \/ step4_generate_report_done
    \/ simple_kickoff_return

----------------------------------------------------------------------------
(* WorkflowState (07_durable_basic.py) and LongRunningState                *)
(* (08_durable_resume.py) as objects: fields with mutable defaults         *)
(*                                                                         *)
(* Both classes are pydantic models.  A pydantic model copies a mutable    *)
(* field default for every instance it builds; the default object itself   *)
(* stays with the class.                                                   *)

\* state objects created in one process
MaxInstances == 2
\* statements that write through one container
MaxWrites == 2

\* the default objects of the classes: data: dict = {} and history: list = []
\* of WorkflowState, results: list = [] of LongRunningState
DataDefault == 1

HistoryDefault == 2

ResultsDefault == 3

Classes == {"WorkflowState", "LongRunningState"}

\* a state object: its class and the addresses of its list and its dict
\* (LongRunningState has no dict field: 0)
StateObject(c, l, d) == [cls |-> c, list |-> l, dict |-> d]

\* what one sees through instance i
View(i) ==
    [list |-> heap[insts[i].list],
     dict |-> IF insts[i].dict = 0 THEN << >> ELSE heap[insts[i].dict]]

\* a model class that hands its default objects to every instance
new_state_shared ==
    /\ Len(insts) < MaxInstances
    /\ \E c \in Classes :
         insts' = Append(insts,
                    IF c = "WorkflowState"
                    THEN StateObject(c, HistoryDefault, DataDefault)
                    ELSE StateObject(c, ResultsDefault, 0))
    /\ last_op' = 0
    /\ UNCHANGED heap
    /\ UNCHANGED besidesInstances

\* WorkflowState() / LongRunningState(): the flow builds its state, every
\* mutable default is copied into a new object
new_state ==
    /\ Len(insts) < MaxInstances
    /\ \E c \in Classes :
         IF c = "WorkflowState"
         THEN /\ heap' = heap \o <<heap[HistoryDefault], heap[DataDefault]>>
              /\ insts' = Append(insts,
                            StateObject(c, Len(heap) + 1, Len(heap) + 2))
         ELSE /\ heap' = Append(heap, heap[ResultsDefault])
              /\ insts' = Append(insts, StateObject(c, Len(heap) + 1, 0))
    /\ last_op' = 0
    /\ UNCHANGED besidesInstances

\* self.state.history.append(...) (07, line 54) and
\* self.state.results.append(...) (08, line 76)
list_append ==
    /\ \E i \in DOMAIN insts :
         /\ Len(heap[insts[i].list]) < MaxWrites
         /\ heap' = [heap EXCEPT ![insts[i].list] = Append(@, "entry")]
         /\ last_op' = i
    /\ UNCHANGED insts
    /\ UNCHANGED besidesInstances

\* self.state.data["processed"] = True (07, line 90)
dict_write ==
    /\ \E i \in DOMAIN insts :
         /\ insts[i].dict # 0
         /\ Len(heap[insts[i].dict]) < MaxWrites
         /\ heap' = [heap EXCEPT ![insts[i].dict] = Append(@, "processed")]
         /\ last_op' = i
    /\ UNCHANGED insts
    /\ UNCHANGED besidesInstances

\* self.state.data = {...} (07, line 68): the field is bound to a new dict
dict_assign ==
    /\ \E i \in DOMAIN insts :
         /\ insts[i].dict # 0
         /\ heap[insts[i].dict] = << >>
         /\ heap' = Append(heap, <<"source">>)
         /\ insts' = [insts EXCEPT ![i].dict = Len(heap) + 1]
         /\ last_op' = i
    /\ UNCHANGED besidesInstances

\* the classes are defined, no flow has been built
InstancesInit ==
    /\ heap = << << >>, << >>, << >> >>
    /\ insts = << >>
    /\ last_op = 0

InstancesNext ==
    \/ new_state
    \/ list_append
    \/ dict_write
    \/ dict_assign

----------------------------------------------------------------------------
(* src/13_production_concerns.py : AuditLogger                             *)

\* calls of log explored in one session
MaxLogs == 2

EventTypes == {"crew_start", "tool_call"}

\* a dict is the sequence of its <<key, value>> pairs in insertion order.
\* The data dicts passed to log:
Datas ==
    { << >>,
      << <<"crew_id", "token_test">> >>,
      << <<"event_type", "crew_start">> >>,
      << <<"event_type", "tool_call">> >> }

\* d[k] = v: a key that is present keeps its place
Put(d, k, v) ==
    IF \E i \in DOMAIN d : d[i][1] = k
    THEN [i \in DOMAIN d |-> IF d[i][1] = k THEN <<k, v>> ELSE d[i]]
    ELSE Append(d, <<k, v>>)

\* {**d, **e}
RECURSIVE Merge(_, _)
Merge(d, e) ==
    IF e = << >> THEN d
    ELSE Merge(Put(d, Head(e)[1], Head(e)[2]), Tail(e))

\* d.get(k)
Get(d, k) ==
    LET I == {i \in DOMAIN d : d[i][1] = k}
    IN  IF I = {} THEN "None" ELSE d[CHOOSE i \in I : TRUE][2]

\* log, lines 43-48: the entry (the clock reading is left out)
AuditEntry(session, event_type, data) ==
    Merge(<< <<"timestamp", "now">>, <<"session_id", session>>,
             <<"event_type", event_type>> >>, data)

\* json.dumps(entry): the pairs of the dict in order, as one line
Dumps(entry) == entry

\* json.loads(line): the pairs are put into a new dict one by one
Loads(line) == Merge(<< >>, line)

\* get_logs, lines 53-64; filter "None" is event_type=None
GetLogs(filter) ==
    LET Wanted(e) == filter = "None" \/ Get(e, "event_type") = filter
    IN  SelectSeq([i \in DOMAIN audit_file |-> Loads(audit_file[i])], Wanted)

LogCall(t, data) == [event_type |-> t, data |-> data]

\* audit_logger.log(event_type, data), lines 41-51: one line is appended
audit_log ==
    /\ Len(audit_calls) < MaxLogs
    /\ \E t \in EventTypes, data \in Datas :
         /\ audit_file' = Append(audit_file, Dumps(AuditEntry("s1", t, data)))
         /\ audit_calls' = Append(audit_calls, LogCall(t, data))
    /\ UNCHANGED <<audit_prior, got>>
    /\ UNCHANGED besidesAudit

\* audit_logger.get_logs(event_type), lines 53-64
audit_get_logs ==
    /\ \E f \in EventTypes \cup {"None"} :
         got' = [filter |-> f, logs |-> GetLogs(f)]
    /\ UNCHANGED <<audit_file, audit_prior, audit_calls>>
    /\ UNCHANGED besidesAudit

\* the calls of log an earlier session has made
PriorCalls == { << >>, << LogCall("crew_start", << >>) >> }

\* AuditLogger(), lines 37-39: the file is what earlier sessions left
AuditInit ==
    /\ audit_prior \in PriorCalls
    /\ audit_file = [i \in DOMAIN audit_prior |->
                       Dumps(AuditEntry("s0", audit_prior[i].event_type,
                                        audit_prior[i].data))]
    /\ audit_calls = << >>
    /\ got = [filter |-> "None", logs |-> << >>]

AuditNext ==
    \/ audit_log
    \/ audit_get_logs

----------------------------------------------------------------------------
(* Specifications                                                          *)

\* no log has been written
AuditQuiet == AuditInit /\ audit_prior = << >>

\* the programs of 07 and 13 (AuditLogger) have not run, no state object
\* has been built
OthersInit == SimpleInit /\ InstancesInit /\ AuditQuiet

\* the programs of 04, 06, 08 and test_parallel_execution have not run
EarlierInit == ResumeInit /\ ProposalInit /\ ToolInit /\ ParallelInit

\* the command line program of 08_durable_resume.py; no ProposalFlow runs
InitResume ==
    ResumeInit /\ ProposalInit /\ ToolInit /\ ParallelInit /\ OthersInit

SpecResume == InitResume /\ [][ResumeNext]_vars

\* main() of 06_hitl_flow_feedback.py; no ResumableWorkflow runs
InitProposal ==
    ProposalInit /\ ResumeInit /\ ToolInit /\ ParallelInit /\ OthersInit

SpecProposal == InitProposal /\ [][ProposalNext]_vars

\* ProposalFlow kicked off with a revision_count given as input
InitProposalInputs ==
    ProposalInputsInit /\ ResumeInit /\ ToolInit /\ ParallelInit
        /\ OthersInit

SpecProposalInputs == InitProposalInputs /\ [][ProposalNext]_vars

\* main() of 04_tool_error_handling.py
InitTool ==
    ToolInit /\ ResumeInit /\ ProposalInit /\ ParallelInit /\ OthersInit

SpecTool == InitTool /\ [][ToolNext]_vars

\* test_parallel_execution of 13_production_concerns.py.  asyncio.run
\* drives the loop until run_all is finished, and a crew.kickoff() that has
\* begun returns or raises.
InitParallel ==
    ParallelInit /\ ResumeInit /\ ProposalInit /\ ToolInit /\ OthersInit

SpecParallel ==
    InitParallel /\ [][ParallelNext]_vars /\ WF_vars(ParallelNext)

\* main() of 07_durable_basic.py
InitSimple == SimpleInit /\ EarlierInit /\ InstancesInit /\ AuditQuiet

SpecSimple == InitSimple /\ [][SimpleNext]_vars

\* state objects of the two model classes built and written in one process
InitInstances == InstancesInit /\ EarlierInit /\ SimpleInit /\ AuditQuiet

SpecInstances == InitInstances /\ [][InstancesNext]_vars

\* a session of the AuditLogger of 13_production_concerns.py
InitAudit == AuditInit /\ EarlierInit /\ SimpleInit /\ InstancesInit

SpecAudit == InitAudit /\ [][AuditNext]_vars

----------------------------------------------------------------------------
(* ResumableWorkflow: the claims                                           *)

\* what a comparison of final states looks at (timestamps ignored)
Final(s) ==
    [results |-> s.results, current_phase |-> s.current_phase,
     is_complete |-> s.is_complete]

\* flow.state when an uninterrupted --start run has finished phase 5
UninterruptedRun ==
    Phase5Body(
      AppendEntry(EnterPhase(
        AppendEntry(EnterPhase(
          AppendEntry(EnterPhase(
            AppendEntry(EnterPhase(
              Phase0Body(LongRunningState, 1), 1), 1), 2), 2), 3), 3), 4), 4))

\* the process was resumed from a checkpoint written at the end of phase k
ResumedAfter(k) ==
    /\ mode = "resume"
    /\ pc \notin {"idle", "resume_main"}
    /\ loaded.current_phase = k
    /\ loaded.results # << >>
    /\ loaded.results[Len(loaded.results)].phase = k

\* what a resume of flow id `id` finds in the store (main, lines 238-245)
ResumeFinds(id) == Loadable(file) /\ Parse(file.content).flow_id = id

\* C1: a run resumed from the checkpoint written at the end of phase 2
\* enters none of the phases 0, 1, 2 again, and when it ends it is complete
\* at phase 5.
C1_ResumeContinuesAtPhase3 ==
    ResumedAfter(2) =>
        /\ \A i \in 1..Len(executed) : executed[i] >= 3
        /\ pc = "phase_5_return" =>
               (state.is_complete /\ state.current_phase = total_phases)

\* C2: replay equivalence: whenever a run ends, resumed from a checkpoint or
\* not, its final state (results, current_phase, is_complete) is the final
\* state of the uninterrupted run.
C2_ReplayEquivalence ==
    pc = "phase_5_return" => Final(state) = Final(UninterruptedRun)

\* C3: when phase k+1 is about to start (k = 0..4), the stored checkpoint
\* is loadable and its results are the results in memory, ending with the
\* entry of phase k.
PhaseAboutToStart(k) ==
    pc = CASE k = 1 -> "phase_1" [] k = 2 -> "phase_2" [] k = 3 -> "phase_3"
           [] k = 4 -> "phase_4" [] OTHER -> "phase_5"

C3_StoredBeforeNextPhase ==
    \A k \in 0..4 :
        PhaseAboutToStart(k + 1) =>
            /\ Loadable(file)
            /\ Parse(file.content).state.results = state.results
            /\ state.results[Len(state.results)].phase = k

\* C4: checkpoint atomicity: after the process was killed while
\* save_checkpoint was writing, the file holds a complete, loadable
\* checkpoint.
C4_CheckpointAtomicity ==
    (pc = "idle" /\ outcome = "killed" /\ died_at = "save_write")
        => Loadable(file)

\* C5: checkpoints are kept per instance id: whenever the store holds a
\* complete checkpoint, a resume of every instance that has stored one finds
\* its checkpoint.
C5_CheckpointPerInstance ==
    Loadable(file) => \A a \in stored : ResumeFinds(a)

\* C6: --resume <id> with no checkpoint stored for id (no file, or a stored
\* checkpoint of another flow_id) ends with exit status 1, runs no phase and
\* leaves the file as it was.
NotStoredFor(id) ==
    \/ ~file.exists
    \/ Loadable(file) /\ Parse(file.content).flow_id # id

C6_ResumeUnknownFails ==
    [][ ( /\ pc = "resume_main"
          /\ NotStoredFor(arg)
          /\ pc' # pc
          /\ outcome' \notin {"killed", "KeyboardInterrupt"} )
        => ( /\ ExitStatus(outcome') = 1
             /\ pc' = "idle"
             /\ executed' = << >>
             /\ file' = file ) ]_vars

\* C6's case: a resume has failed on a stored checkpoint of another flow_id
C6_Witness ==
    /\ pc = "idle"
    /\ mode = "resume"
    /\ outcome = "exit(1)"
    /\ Loadable(file)
    /\ Parse(file.content).flow_id # arg

----------------------------------------------------------------------------
(* ProposalFlow: the claims                                                *)

\* the outcome review_proposal gives a line
OutcomeOf(line) == ReviewOutcome(ProposalState, line).status

C8_ThreeRevisionsThenFinalize ==
    ( /\ ppc = "returned"
      /\ stdin # << >>
      /\ \A i \in 1..Len(stdin) : OutcomeOf(stdin[i]) = "needs_revision" )
    => ( /\ pstate.revision_count = MaxRevisions
         /\ "finalize_proposal" \in ran
         /\ pstate.status = "finalized" )

\* a review has been asked for and no line has answered it yet
ReviewPending == reviews > Len(stdin)

C10_ApproveFinalizes ==
    ( /\ ppc = "returned"
      /\ stdin # << >>
      /\ OutcomeOf(stdin[Len(stdin)]) = "approved" )
    => ( /\ "finalize_proposal" \in ran
         /\ pstate.status = "finalized" )

\* a review has ended in a rejection
Rejected ==
    /\ stdin # << >>
    /\ reviews = Len(stdin)
    /\ OutcomeOf(stdin[Len(stdin)]) = "rejected"

C12_RouterLabels ==
    [][ppc = "route_after_review" =>
         result' = CASE pstate.status = "needs_revision" -> "revise"
                     [] pstate.status = "approved" -> "finalize"
                     [] pstate.status = "rejected" -> "reject"
                     [] OTHER -> result']_vars

\* C12 as the code has it: the router returns "revise" for "needs_revision",
\* "finalize" for "approved" and "handle_rejection" for "rejected".
C12_RouterLabelsOfCode ==
    [][ppc = "route_after_review" =>
         result' = CASE pstate.status = "needs_revision" -> "revise"
                     [] pstate.status = "approved" -> "finalize"
                     [] pstate.status = "rejected" -> "handle_rejection"
                     [] OTHER -> result']_vars

\* C12's case: the router has just returned the label of a rejection
C12_Witness ==
    /\ "route_after_review" \in ran
    /\ ppc = "handle_rejection"
    /\ result = "handle_rejection"
    /\ "handle_rejection" \notin ran

\* C13: router purity: a step of route_after_review changes no field of the
\* state and reads no input, and the router evaluated again on the state it
\* leaves returns the label it has just returned.
C13_RouterPurity ==
    [][ppc = "route_after_review" =>
         /\ pstate' = pstate
         /\ stdin' = stdin
         /\ result' = RouteLabel(pstate')]_vars

\* C13's case: the router has run on a review that asked for a revision
C13_Witness ==
    /\ "route_after_review" \in ran
    /\ ppc = "revise_proposal"
    /\ result = "revise"
    /\ pstate.status = "needs_revision"

\* a phase method has been entered and has not returned
PhaseExecuting ==
    \/ pc \in {"phase_1_sleep", "phase_2_sleep", "phase_4_sleep",
               "phase_3_loop", "phase_3_except", "phase_3_raise"}
    \/ InSave

\* the handler of phase 3 is running (lines 138-142)
InHandler ==
    \/ pc \in {"phase_3_except", "phase_3_raise"}
    \/ (InSave /\ ret = "phase_3_raise")

\* this step is a KeyboardInterrupt leaving kickoff for the caller
InterruptExit ==
    /\ pc \notin {"idle", "resume_main", "phase_5_return"}
    /\ pc' = "idle"
    /\ outcome' \in {"exit(0)", "KeyboardInterrupt"}

\* this step is a KeyboardInterrupt taking effect in the flow
InterruptStep ==
    \/ InterruptExit /\ pc # "phase_3_raise"
    \/ InTry /\ pc' = "phase_3_except"

\* C14 as claimed: an interrupt never takes effect while a phase is
\* executing, only between two phases.
C14_NoPreemption == [][InterruptStep => ~PhaseExecuting]_vars

\* C14 as the code has it: an interrupt preempts the phase that is executing.
\* From the interrupt on no phase is entered and no results entry is
\* appended; control goes to the caller at once, or first through the handler
\* of phase 3 and its save when the interrupt fell in the batch loop.
C14_InterruptPreempts ==
    [][(InterruptStep \/ InHandler) =>
         /\ executed' = executed
         /\ Len(state'.results) <= Len(state.results)
         /\ pc' \in {"idle", "phase_3_except", "phase_3_raise", "save",
                     "save_write"}
         /\ InSave' => ret' = "phase_3_raise"]_vars

\* C14's case: the interrupt has stopped phase 3 after its second batch
C14_Witness ==
    /\ pc = "phase_3_except"
    /\ batch = 2
    /\ executed = <<0, 1, 2, 3>>
    /\ Len(state.results) = 3

\* C15 as claimed: when an interrupt that fell in an executing phase returns
\* control to the caller, the stored checkpoint holds interrupted = true.
C15_InterruptedStatusStored ==
    [][(InterruptExit /\ PhaseExecuting) =>
         /\ Loadable(file')
         /\ Parse(file'.content).state.interrupted]_vars

----------------------------------------------------------------------------
(* test_parallel_execution: the claims                                     *)

\* two crews are inside crew.kickoff() at the same moment
Overlap ==
    \E c1, c2 \in CrewIds :
        c1 # c2 /\ task[c1] = "running" /\ task[c2] = "running"

\* at no moment are two crews inside crew.kickoff()
NoTwoKickoffs == ~Overlap

\* C16: the crews of test_parallel_execution overlap in time: a run reaches a
\* moment at which a second crew has begun its kickoff and the first crew's
\* kickoff has not returned.
C16_CrewsOverlap == <>Overlap

\* C17: when a crew of the parallel run has failed and control is back in
\* the caller, every other crew has run to its end and the result of each
\* crew that succeeded is among the results the caller holds.
C17_OthersResultsReturned ==
    (apc \in {"returned", "raised"} /\ \E f \in CrewIds : task[f] = "failed")
        => \A c \in CrewIds :
              /\ task[c] \in {"done", "failed"}
              /\ task[c] = "done" =>
                    \E i \in DOMAIN results : results[i].crew_id = c

----------------------------------------------------------------------------
(* flaky_tool: the claims                                                  *)

\* C19 as claimed: whether a call of flaky_tool fails depends on the calls
\* of its own caller only: two calls preceded by the same number of calls of
\* their own callers have the same outcome.
C19_CountPerCaller ==
    \A i, j \in DOMAIN FlakyCalls :
        OwnCalls(FlakyCalls[i].caller, i - 1)
          = OwnCalls(FlakyCalls[j].caller, j - 1)
            => FlakyCalls[i].outcome = FlakyCalls[j].outcome

\* C19 as the code has it: the count is shared by all callers.  A caller's
\* first call of flaky_tool fails exactly when no caller has called the tool
\* since the reset, and no other call fails.
C19_CountShared ==
    \A i \in DOMAIN FlakyCalls :
        FlakyCalls[i].outcome = "ConnectionError"
            <=> /\ OwnCalls(FlakyCalls[i].caller, i - 1) = 0
                /\ \A c \in Callers : OwnCalls(c, i - 1) = 0

\* C19's case: the first call of a second caller succeeded because another
\* caller had called the tool before
C19_Witness ==
    \E i \in DOMAIN FlakyCalls :
        /\ i > 1
        /\ OwnCalls(FlakyCalls[i].caller, i - 1) = 0
        /\ FlakyCalls[i].outcome = "success"
        /\ FlakyCalls[1].outcome = "ConnectionError"

\* C20: after the reset the first call of flaky_tool raises ConnectionError,
\* every later call returns success, and the counter equals the number of
\* calls of flaky_tool since the reset (which is the count main prints).
C20_FirstCallFailsOnly ==
    tpc # "imported" =>
        /\ call_counter = Len(FlakyCalls)
        /\ \A i \in DOMAIN FlakyCalls :
              /\ FlakyCalls[i].attempt = i
              /\ FlakyCalls[i].outcome =
                   (IF i = 1 THEN "ConnectionError" ELSE "success")
        /\ tpc = "returned" => printed = Len(FlakyCalls)

\* C20's case: main has ended after three calls of flaky_tool
C20_Witness ==
    /\ tpc = "returned"
    /\ Len(FlakyCalls) = 3
    /\ printed = 3

----------------------------------------------------------------------------
(* ResumableWorkflow: identifiers, the stored checkpoint, --status         *)

\* C21: a start gives its workflow a flow_id that no earlier workflow, whose
\* checkpoint has been stored, has been given.
C21_FreshFlowId ==
    [][(pc = "phase_0" /\ state.flow_id = NoFlowId /\ pc' = "save")
          => state'.flow_id \notin stored]_vars

\* C23: the stored checkpoint changes by the steps of save_checkpoint only:
\* whatever else the flow does to its state leaves the file as it is.
C23_CheckpointIsCopy == [][~InSave => file' = file]_vars

\* C23's case: the phase-3 entry is in the state and not in the checkpoint
C23_Witness ==
    /\ pc = "phase_4"
    /\ Loadable(file)
    /\ Len(state.results) = Len(Parse(file.content).state.results) + 1
    /\ state.current_phase = 3

\* save_checkpoint is called with the state that the stored checkpoint holds
SaveOfStoredState ==
    /\ pc = "save"
    /\ pc' = "save_write"
    /\ Loadable(file)
    /\ Parse(file.content).state = state

\* C24 as claimed: a second save_checkpoint with no state change in between
\* writes the text that is stored already.
C24_SaveIdempotent == [][SaveOfStoredState => wbuf' = file.content]_vars

\* C24 as the code has it: the second save_checkpoint writes the stored
\* checkpoint again with last_checkpoint put to the time of the call, and
\* nothing else differs.
C24_SaveRestamps ==
    [][SaveOfStoredState =>
         /\ WellFormed(wbuf')
         /\ Parse(wbuf').flow_id = Parse(file.content).flow_id
         /\ Parse(wbuf').state = [state EXCEPT !.last_checkpoint = now]
         /\ state' = Parse(wbuf').state]_vars

\* C24's case: the second save in a row of the batch loop, one tick after
\* the first
C24_Witness ==
    /\ pc = "save_write"
    /\ ret = "phase_3_loop"
    /\ batch = 2
    /\ state.last_checkpoint = 2
    /\ state.started_at = 1
    /\ Len(file.content) = Len(wbuf)

\* this step is a run of --status
StatusStep == pc = "idle" /\ runs' = runs + 1 /\ mode' = "status"

\* C25: a run of --status leaves the checkpoint file as it is and executes
\* no phase.
C25_StatusOnlyReads ==
    [][StatusStep =>
         /\ file' = file
         /\ stored' = stored
         /\ executed' = << >>
         /\ pc' = "idle"]_vars

\* C25's case: --status has run after an earlier run left a checkpoint file
C25_Witness ==
    /\ mode = "status"
    /\ pc = "idle"
    /\ file.exists
    /\ runs = MaxRuns

\* C27: when the raise of phase 3's handler takes the interrupt to the
\* caller, the stored checkpoint has interrupted = true and current_phase =
\* 3, its last results entry is that of phase 2, and no phase runs any more.
C27_Phase3InterruptStored ==
    /\ [](pc = "phase_3_raise" =>
            /\ Loadable(file)
            /\ Parse(file.content).state.interrupted
            /\ Parse(file.content).state.current_phase = 3
            /\ Parse(file.content).state.results = state.results
            /\ state.results[Len(state.results)].phase = 2
            /\ executed[Len(executed)] = 3)
    /\ [][pc = "phase_3_raise" =>
            /\ pc' \in {"phase_3_raise", "idle"}
            /\ executed' = executed
            /\ file' = file]_vars

\* C27's case: the handler has saved and is about to raise, the interrupt
\* having come after the first batch
C27_Witness ==
    /\ pc = "phase_3_raise"
    /\ batch = 1
    /\ state.interrupted

\* C29: is_complete holds only with current_phase = 5, in the running flow
\* and in the stored checkpoint.
C29_CompleteOnlyAtLastPhase ==
    /\ state.is_complete => state.current_phase = total_phases
    /\ Loadable(file) =>
          (Parse(file.content).state.is_complete
              => Parse(file.content).state.current_phase = total_phases)

----------------------------------------------------------------------------
(* ProposalFlow: the bound of the revision loop                            *)

\* C28: in every state of a run of ProposalFlow revision_count is between 0
\* and 3 and at most 3 reviews have been asked for.
C28_RevisionLoopBounded ==
    /\ pstate.revision_count \in 0..MaxRevisions
    /\ reviews \in 0..3
    /\ Len(stdin) <= reviews

\* C28's case: the run has ended after a revision and its second review
C28_Witness ==
    /\ ppc = "returned"
    /\ pstate.revision_count = 1
    /\ reviews = 2
    /\ "revise_proposal" \in ran

----------------------------------------------------------------------------
(* SimpleWorkflow, the state objects, AuditLogger: the claims              *)

IsPrefix(s, u) == Len(s) <= Len(u) /\ \A i \in DOMAIN s : s[i] = u[i]

\* C26: the four steps start in their order, each once and none before its
\* predecessor has returned; when kickoff has returned all four have run,
\* history holds initialize, gather_data, process_data, generate_report in
\* that order and current_step is "completed".
C26_StepsInOrder ==
    /\ IsPrefix(wstarted, Methods)
    /\ IsPrefix(wfinished, wstarted)
    /\ Len(wstarted) <= Len(wfinished) + 1
    /\ Len(wstate.history) = Len(wfinished)
    /\ wpc = "returned" =>
          /\ wfinished = Methods
          /\ [i \in DOMAIN wstate.history |-> wstate.history[i].step]
               = <<"initialize", "gather_data", "process_data",
                   "generate_report">>
          /\ wstate.current_step = "completed"

\* C26's case: kickoff has returned after the four steps
C26_Witness ==
    /\ wpc = "returned"
    /\ Len(wstate.history) = 4
    /\ wstate.history[1].timestamp < wstate.history[4].timestamp

\* what one sees through instance i after the step
ViewAfter(i) ==
    [list |-> heap'[insts'[i].list],
     dict |-> IF insts'[i].dict = 0 THEN << >> ELSE heap'[insts'[i].dict]]

CallType(i) ==
    IF i <= Len(audit_prior) THEN audit_prior[i].event_type
    ELSE audit_calls[i - Len(audit_prior)].event_type

\* the entries of the file written by calls log(t, data), in order
RecordedBy(t) ==
    LET F[i \in 0..Len(audit_file)] ==
            IF i = 0 THEN << >>
            ELSE IF CallType(i) = t
                 THEN Append(F[i - 1], Loads(audit_file[i]))
                 ELSE F[i - 1]
    IN  F[Len(audit_file)]

\* C30: get_logs() returns the earlier entries followed by one entry per
\* call of log, and get_logs(t) returns exactly the entries written by the
\* calls log(t, data).
C30_AppendOnlyAndFiltered ==
    /\ Len(GetLogs("None")) = Len(audit_prior) + Len(audit_calls)
    /\ \A i \in DOMAIN audit_prior :
          GetLogs("None")[i] =
              AuditEntry("s0", audit_prior[i].event_type, audit_prior[i].data)
    /\ \A t \in EventTypes : GetLogs(t) = RecordedBy(t)

====
